---------------------------- MODULE Spec2Model ----------------------------
(***************************************************************************)
(* A model of dmypyls, a language server that drives the dmypy daemon and  *)
(* turns its line-oriented report into LSP diagnostics.                    *)
(*                                                                         *)
(* Text is modelled as a sequence of characters, each character a string   *)
(* of its own: "a", ":", "\n".  Two names stand for characters that a      *)
(* one-character TLA+ string cannot hold: "xFF" is the byte 0xFF (never    *)
(* part of valid UTF-8) and "U0663" is ARABIC-INDIC DIGIT THREE (a decimal *)
(* digit to the regex class \d, not to u32's parser).                      *)
(***************************************************************************)
EXTENDS Integers, Sequences, FiniteSets, Bags, TLC

VARIABLES
    config,     \* Backend.config: the command template, fixed at startup
    versions,   \* Backend.versions: HashMap<Url, i32>
    tasks,      \* the handlers that wait for their daemon child to exit, a bag
    effect,     \* what the last handler step did: read, spawned, published, returned
    alive,      \* FALSE once a handler has panicked
    recorded,   \* history: the version of the last did_open/did_change of each document
    daemon_run, \* history: how the last "dmypy run" of initialize went, if there was one
    lock,       \* the Mutex of Backend.versions: TRUE while it is locked
    threads,    \* the handlers in progress, statement by statement (SpecLock)
    call,       \* a call of one of the pure functions, with its arguments
    returned    \* what that call returned, once it has

vars ==
    <<config, versions, tasks, effect, alive, recorded, daemon_run, lock, threads,
      call, returned>>
server_vars ==
    <<config, versions, tasks, effect, alive, recorded, daemon_run, lock, threads>>

(***************************************************************************)
(* Results and options                                                     *)
(***************************************************************************)
None == [some |-> FALSE]
Some(v) == [some |-> TRUE, val |-> v]
Ok(v) == [ok |-> TRUE, val |-> v]
Err(e) == [ok |-> FALSE, err |-> e]

RECURSIVE SetMax(_)
SetMax(S) ==
    LET x == CHOOSE y \in S : TRUE
    IN  IF S = {x} THEN x
        ELSE LET m == SetMax(S \ {x}) IN IF x > m THEN x ELSE m

(***************************************************************************)
(* Character classes of the regex crate (Unicode aware) and of the byte    *)
(* decoder.                                                                *)
(***************************************************************************)
AsciiDigits == {"0", "1", "2", "3", "4", "5", "6", "7", "8", "9"}
RegexDigit == AsciiDigits \cup {"U0663"}
AsciiLetters ==
    {"a", "b", "c", "d", "e", "f", "g", "h", "i", "j", "k", "l", "m",
     "n", "o", "p", "q", "r", "s", "t", "u", "v", "w", "x", "y", "z",
     "A", "B", "C", "D", "E", "F", "G", "H", "I", "J", "K", "L", "M",
     "N", "O", "P", "Q", "R", "S", "T", "U", "V", "W", "X", "Y", "Z"}
RegexWord == AsciiLetters \cup RegexDigit \cup {"_"}
InvalidByte == "xFF"

DigitValue(c) ==
    CASE c = "0" -> 0 [] c = "1" -> 1 [] c = "2" -> 2 [] c = "3" -> 3
      [] c = "4" -> 4 [] c = "5" -> 5 [] c = "6" -> 6 [] c = "7" -> 7
      [] c = "8" -> 8 [] c = "9" -> 9

(* std::str::from_utf8: the text when every byte is valid, else an error. *)
from_utf8(bytes) ==
    IF \E i \in 1..Len(bytes) : bytes[i] = InvalidByte
    THEN Err("Utf8Error")
    ELSE Ok(bytes)

(* str::starts_with *)
starts_with(text, prefix) ==
    /\ Len(prefix) <= Len(text)
    /\ SubSeq(text, 1, Len(prefix)) = prefix

(* The pieces of s between occurrences of sep; Split("a/b", "/") = <<"a", "b">>. *)
Split(s, sep) ==
    LET at == {i \in 1..Len(s) : s[i] = sep}
        nth(k) == CHOOSE i \in at : Cardinality({j \in at : j <= i}) = k
        from(k) == IF k = 1 THEN 1 ELSE nth(k - 1) + 1
        to(k) == IF k = Cardinality(at) + 1 THEN Len(s) ELSE nth(k) - 1
    IN  [k \in 1..(Cardinality(at) + 1) |-> SubSeq(s, from(k), to(k))]

(* str::lines: split at "\n", no final empty line, and a line's trailing "\r" removed. *)
StripCr(line) ==
    IF Len(line) > 0 /\ line[Len(line)] = "\r"
    THEN SubSeq(line, 1, Len(line) - 1)
    ELSE line
lines(text) ==
    LET parts == Split(text, "\n")
        kept  == IF parts[Len(parts)] = <<>>
                 THEN SubSeq(parts, 1, Len(parts) - 1)
                 ELSE parts
    IN  [i \in 1..Len(kept) |-> StripCr(kept[i])]

(***************************************************************************)
(* u32: a 32-bit unsigned integer as two 16-bit halves, so that the model  *)
(* keeps the width of the type.                                            *)
(***************************************************************************)
U32Half == 65536
U32(n) == [hi |-> n \div U32Half, lo |-> n % U32Half]

(* checked_mul(10) then checked_add(d), as str::parse::<u32> accumulates. *)
u32_push_digit(acc, d) ==
    LET lo10 == acc.lo * 10 + d
        hi10 == acc.hi * 10 + (lo10 \div U32Half)
    IN  IF hi10 >= U32Half THEN None
        ELSE Some([hi |-> hi10, lo |-> lo10 % U32Half])

RECURSIVE u32_parse_from(_, _, _)
u32_parse_from(s, i, acc) ==
    IF i > Len(s) THEN Some(acc)
    ELSE IF s[i] \notin AsciiDigits THEN None
    ELSE LET next == u32_push_digit(acc, DigitValue(s[i]))
         IN  IF next.some THEN u32_parse_from(s, i + 1, next.val) ELSE None

u32_parse_or_zero(s) ==
    IF Len(s) = 0 \/ ~u32_parse_from(s, 1, U32(0)).some THEN Some(U32(0))
    ELSE u32_parse_from(s, 1, U32(0))

(* str::parse::<u32>().ok() *)
u32_parse(s) == IF Len(s) = 0 THEN None ELSE u32_parse_from(s, 1, U32(0))

u32_wrapping_sub_1(n) ==
    IF n.lo > 0 THEN [hi |-> n.hi, lo |-> n.lo - 1]
    ELSE IF n.hi > 0 THEN [hi |-> n.hi - 1, lo |-> U32Half - 1]
    ELSE [hi |-> U32Half - 1, lo |-> U32Half - 1]

(* u32::saturating_sub(1) *)
saturating_sub_1(n) ==
    IF n.lo > 0 THEN [hi |-> n.hi, lo |-> n.lo - 1]
    ELSE IF n.hi > 0 THEN [hi |-> n.hi - 1, lo |-> U32Half - 1]
    ELSE n

(***************************************************************************)
(* std::path on Unix.  A PathBuf is modelled by its components, which is   *)
(* what PathBuf's ==, strip_prefix and extension work on.                  *)
(***************************************************************************)
RootDir == <<"/">>
CurDir == <<".">>
ParentDir == <<".", ".">>

has_root(s) == Len(s) > 0 /\ s[1] = "/"
is_relative(s) == ~has_root(s)

(* Path::components: empty pieces are dropped, and "." is kept only when it *)
(* leads a relative path.                                                   *)
RECURSIVE KeepComponents(_, _, _)
KeepComponents(parts, i, rooted) ==
    IF i > Len(parts) THEN <<>>
    ELSE IF parts[i] = <<>> \/ (parts[i] = CurDir /\ (rooted \/ i > 1))
         THEN KeepComponents(parts, i + 1, rooted)
         ELSE <<parts[i]>> \o KeepComponents(parts, i + 1, rooted)
components(s) ==
    (IF has_root(s) THEN <<RootDir>> ELSE <<>>)
        \o KeepComponents(Split(s, "/"), 1, has_root(s))

(* PathBuf::from(&str) *)
PathBufFrom(s) == components(s)

(* Path::strip_prefix *)
strip_prefix(path, base) ==
    IF Len(base) <= Len(path) /\ SubSeq(path, 1, Len(base)) = base
    THEN Ok(SubSeq(path, Len(base) + 1, Len(path)))
    ELSE Err("StripPrefixError")

(* Path::file_name: the last component when it is a normal one. *)
file_name(path) ==
    IF Len(path) = 0 \/ path[Len(path)] \in {RootDir, CurDir, ParentDir}
    THEN None
    ELSE Some(path[Len(path)])

(* Path::extension: what follows the last "." of the file name, when that  *)
(* "." is not its first character.                                         *)
extension(path) ==
    LET name == file_name(path)
    IN  IF ~name.some THEN None
        ELSE LET dots == {i \in 1..Len(name.val) : name.val[i] = "."}
             IN  IF dots = {} \/ SetMax(dots) = 1 THEN None
                 ELSE Some(SubSeq(name.val, SetMax(dots) + 1, Len(name.val)))

(* Path::join with an absolute argument replaces the path. *)
RECURSIVE Concat(_)
Concat(ss) == IF Len(ss) = 0 THEN <<>> ELSE ss[1] \o Concat(Tail(ss))
PathJoin(base, s) ==
    IF has_root(s) THEN s
    ELSE IF Len(base) > 0 /\ base[Len(base)] = "/" THEN base \o s
    ELSE base \o <<"/">> \o s

(***************************************************************************)
(* Url (the url crate), as parsed: a URL that cannot be a base has no path *)
(* segments; the others have a host and percent-encoded path segments.     *)
(***************************************************************************)
Url(scheme, host, segments) ==
    [scheme |-> scheme, cannot_be_a_base |-> FALSE, host |-> host, segments |-> segments]
OpaqueUrl(scheme) ==
    [scheme |-> scheme, cannot_be_a_base |-> TRUE, host |-> None, segments |-> <<>>]

(* percent-encoding of one path segment; of the model's characters these   *)
(* four are in the crate's PATH_SEGMENT set.                               *)
PercentEncodeChar(c) ==
    CASE c = " " -> <<"%", "2", "0">>
      [] c = "%" -> <<"%", "2", "5">>
      [] c = "#" -> <<"%", "2", "3">>
      [] c = "?" -> <<"%", "3", "F">>
      [] OTHER -> <<c>>
RECURSIVE percent_encode(_)
percent_encode(s) ==
    IF Len(s) = 0 THEN <<>> ELSE PercentEncodeChar(s[1]) \o percent_encode(Tail(s))

(* percent-decoding: "%" and two hex digits give one byte.  The table holds *)
(* the escapes that occur in the model's URLs.                             *)
PercentDecodePair(p) ==
    CASE p = <<"2", "0">> -> Some(" ")
      [] p = <<"2", "5">> -> Some("%")
      [] p = <<"2", "3">> -> Some("#")
      [] p = <<"3", "F">> -> Some("?")
      [] p = <<"2", "F">> -> Some("/")
      [] OTHER -> None
RECURSIVE percent_decode(_)
percent_decode(s) ==
    IF Len(s) = 0 THEN <<>>
    ELSE IF s[1] = "%" /\ Len(s) >= 3 /\ PercentDecodePair(SubSeq(s, 2, 3)).some
         THEN <<PercentDecodePair(SubSeq(s, 2, 3)).val>>
                  \o percent_decode(SubSeq(s, 4, Len(s)))
         ELSE <<s[1]>> \o percent_decode(Tail(s))

(* Url::to_file_path: "/" and the decoded segment, for each segment. *)
RECURSIVE SegmentsToPath(_)
SegmentsToPath(segments) ==
    IF Len(segments) = 0 THEN <<>>
    ELSE <<"/">> \o percent_decode(segments[1]) \o SegmentsToPath(Tail(segments))
to_file_path(uri) ==
    IF uri.cannot_be_a_base THEN Err("()")
    ELSE IF uri.host.some /\ uri.host.val # <<"l", "o", "c", "a", "l", "h", "o", "s", "t">> THEN Err("()")
    ELSE Ok(PathBufFrom(SegmentsToPath(uri.segments)))

(* Url::from_file_path: one encoded segment per component after the root. *)
from_file_path(s) ==
    IF ~has_root(s) THEN Err("()")
    ELSE LET comps == Tail(components(s))
         IN  Ok(Url(<<"f", "i", "l", "e">>, None,
                    IF Len(comps) = 0 THEN <<<<>>>>
                    ELSE [i \in 1..Len(comps) |-> percent_encode(comps[i])]))

(***************************************************************************)
(* RelPathBuf: a path relative to a root directory (relpathbuf.rs).        *)
(***************************************************************************)
RelPathBuf(root_dir, path_buf) == [root_dir |-> root_dir, path_buf |-> path_buf]

from_uri(root_dir, uri) ==
    LET file == to_file_path(uri)
    IN  IF ~file.ok THEN Err("uri is not a file path")
        ELSE LET rel == strip_prefix(file.val, root_dir)
             IN  IF ~rel.ok THEN Err("uri is not a child of root_dir")
                 ELSE Ok(RelPathBuf(root_dir, rel.val))

from_filename_keep_absolute(root_dir, filename) ==
    Ok(RelPathBuf(root_dir, PathBufFrom(filename)))

from_filename(root_dir, filename) ==
    LET path_buf == PathBufFrom(filename)
    IN  IF is_relative(filename) THEN Ok(RelPathBuf(root_dir, path_buf))
        ELSE LET rel == strip_prefix(path_buf, root_dir)
             IN  IF ~rel.ok THEN Err("filename prefix could not be stripped")
                 ELSE Ok(RelPathBuf(root_dir, rel.val))

(***************************************************************************)
(* The line pattern and the line parser (main.rs).  The pattern has seven  *)
(* groups: the filename (any characters, greedy), four runs of digits, a   *)
(* run of word characters and the rest of the line.                        *)
(***************************************************************************)
MYPY_ERROR_REGEX == "(.*):(\\d+):(\\d+):(\\d+):(\\d+): (\\w+): (.*)"

(* The end of the longest run of characters of cls that starts at i. *)
RECURSIVE RunEnd(_, _, _)
RunEnd(line, i, cls) ==
    IF i <= Len(line) /\ line[i] \in cls THEN RunEnd(line, i + 1, cls) ELSE i

At(line, i) == IF 1 <= i /\ i <= Len(line) THEN line[i] ELSE "EOL"

(* MYPY_ERROR_REGEX after its first group, matched from position i: ":",   *)
(* digits, ":", digits, ":", digits, ":", digits, ": ", word characters,   *)
(* ": " and the rest.  Every repetition is followed by a character outside its class, so the   *)
(* greedy runs are the only way to match.                                  *)
MatchAfterFilename(line, i) ==
    LET a1 == i + 1
        b1 == RunEnd(line, a1, RegexDigit)
        a2 == b1 + 1
        b2 == RunEnd(line, a2, RegexDigit)
        a3 == b2 + 1
        b3 == RunEnd(line, a3, RegexDigit)
        a4 == b3 + 1
        b4 == RunEnd(line, a4, RegexDigit)
        a6 == b4 + 2
        b6 == RunEnd(line, a6, RegexWord)
    IN  IF /\ At(line, i) = ":" /\ b1 > a1
           /\ At(line, b1) = ":" /\ b2 > a2
           /\ At(line, b2) = ":" /\ b3 > a3
           /\ At(line, b3) = ":" /\ b4 > a4
           /\ At(line, b4) = ":" /\ At(line, b4 + 1) = " " /\ b6 > a6
           /\ At(line, b6) = ":" /\ At(line, b6 + 1) = " "
        THEN Some(<<SubSeq(line, 1, i - 1),
                    SubSeq(line, a1, b1 - 1), SubSeq(line, a2, b2 - 1),
                    SubSeq(line, a3, b3 - 1), SubSeq(line, a4, b4 - 1),
                    SubSeq(line, a6, b6 - 1),
                    SubSeq(line, b6 + 2, Len(line))>>)
        ELSE None

(* Regex::captures: the leftmost match; the first group is greedy, so it   *)
(* ends at the last place from which the rest of the pattern matches.      *)
captures(line) ==
    LET ends == {i \in 1..Len(line) : MatchAfterFilename(line, i).some}
    IN  IF ends = {} THEN None ELSE MatchAfterFilename(line, SetMax(ends))

(* DiagnosticSeverity::try_from(&str).ok(): the four names of lsp_types,   *)
(* compared exactly.                                                       *)
severity_try_from(keyword) ==
    CASE keyword = <<"E", "r", "r", "o", "r">> -> Some("ERROR")
      [] keyword = <<"W", "a", "r", "n", "i", "n", "g">> -> Some("WARNING")
      [] keyword = <<"I", "n", "f", "o", "r", "m", "a", "t", "i", "o", "n">> -> Some("INFORMATION")
      [] keyword = <<"H", "i", "n", "t">> -> Some("HINT")
      [] OTHER -> None

Position(line, character) == [line |-> line, character |-> character]
Range(start, end) == [start |-> start, end |-> end]
Diagnostic(range, message, severity) ==
    [range |-> range, message |-> message, source |-> Some("dmypy"),
     severity |-> severity]

convert_capture_without_filter(root_dir, target_filename, caps) ==
    LET start_line == u32_parse(caps[2])
        start_column == u32_parse(caps[3])
        end_line == u32_parse(caps[4])
        end_column == u32_parse(caps[5])
    IN  IF ~(start_line.some /\ start_column.some /\ end_line.some /\ end_column.some)
        THEN None
        ELSE Some(Diagnostic(
                 Range(Position(saturating_sub_1(start_line.val),
                                saturating_sub_1(start_column.val)),
                       Position(saturating_sub_1(end_line.val),
                                saturating_sub_1(end_column.val))),
                 caps[7], severity_try_from(caps[6])))

convert_capture_to_diagnostic(root_dir, target_filename, caps) ==
    LET filename == from_filename(root_dir, caps[1])
        start_line == u32_parse(caps[2])
        start_column == u32_parse(caps[3])
        end_line == u32_parse(caps[4])
        end_column == u32_parse(caps[5])
    IN  IF ~filename.ok THEN None
        ELSE IF target_filename # filename.val THEN None
        ELSE IF ~start_line.some THEN None
        ELSE IF ~start_column.some THEN None
        ELSE IF ~end_line.some THEN None
        ELSE IF ~end_column.some THEN None
        ELSE Some(Diagnostic(
                 Range(Position(saturating_sub_1(start_line.val),
                                saturating_sub_1(start_column.val)),
                       Position(saturating_sub_1(end_line.val),
                                saturating_sub_1(end_column.val))),
                 caps[7], severity_try_from(caps[6])))

(***************************************************************************)
(* MypyLsDiagnostic and the set builder (main.rs).  The HashSet is a       *)
(* sequence without repetition; its iteration order is unspecified in the  *)
(* program and is the insertion order here.                                *)
(***************************************************************************)
(* impl Hash for MypyLsDiagnostic *)
hash(d) == <<d.range.start.line, d.range.start.character,
             d.range.end.line, d.range.end.character, d.message, d.source>>

(* #[derive(Eq, PartialEq)]: every field of the Diagnostic. *)
eq(d, e) == d = e

vec_push(set, d) == Append(set, d)

(* HashSet::insert: no change when an equal element with the same hash is there. *)
hash_set_insert(set, d) ==
    IF \E i \in 1..Len(set) : hash(set[i]) = hash(d) /\ eq(set[i], d)
    THEN set
    ELSE Append(set, d)

RECURSIVE CollectDiagnostics(_, _, _, _, _)
CollectDiagnostics(root_dir, target_filename, ls, i, set) ==
    IF i > Len(ls) THEN set
    ELSE LET caps == captures(ls[i])
             d == IF caps.some
                  THEN convert_capture_to_diagnostic(root_dir, target_filename, caps.val)
                  ELSE None
         IN  CollectDiagnostics(root_dir, target_filename, ls, i + 1,
                                IF d.some THEN hash_set_insert(set, d.val) ELSE set)

parse_diagnostics(root_dir, target_filename, output) ==
    LET text == from_utf8(output)
    IN  IF ~text.ok THEN Err("from_utf8 failed for dmypy output")
        ELSE Ok(CollectDiagnostics(root_dir, target_filename, lines(text.val), 1, <<>>))

(***************************************************************************)
(* The daemon's command line (config.command(), whose code is not among    *)
(* the sources: the specification describes it) and the liveness probe.    *)
(***************************************************************************)
Panic(message) == [ok |-> FALSE, panic |-> message]
IsPanic(r) == "panic" \in DOMAIN r

(* DmypylsConfig::command: the command template, or an error when it is empty. *)
command(cfg) ==
    IF cfg.command = <<>> THEN Err("No dmypy command found")
    ELSE Ok(cfg.command)

STATUS_BANNER == <<"D", "a", "e", "m", "o", "n", " ", "i", "s", " ", "u", "p", " ", "a", "n", "d", " ", "r", "u", "n", "n", "i", "n", "g">>

(* Command::output of a child: it could not be spawned, or it ran and left  *)
(* its standard output and exit status.                                     *)
SpawnError == [spawned |-> FALSE]
Output(stdout, success) == [spawned |-> TRUE, stdout |-> stdout, success |-> success]

(* dmypy_is_running, given what the child spawned for "status" does. *)
dmypy_is_running(cfg, child) ==
    LET cmd == command(cfg)
    IN  IF ~cmd.ok THEN cmd
        ELSE IF ~child.spawned THEN Ok(FALSE)
        ELSE LET text == from_utf8(child.stdout)
             IN  IF ~text.ok THEN Panic("unwrap on Utf8Error")
                 ELSE Ok(starts_with(text.val, STATUS_BANNER))

(***************************************************************************)
(* serde_json::from_slice and the Display of serde_json::Value, for the    *)
(* JSON that the model's inspect payloads are written in: null, true,      *)
(* false, unsigned integers, strings without escapes, arrays and objects.  *)
(* An object is a BTreeMap: its members are kept in the order of their     *)
(* keys and a repeated key keeps its last value.                           *)
(***************************************************************************)
JsonWhitespace == {" ", "\n", "\t", "\r"}
JsonErr == [ok |-> FALSE, err |-> "serde_json::Error"]
JsonAt(value, next) == [ok |-> TRUE, val |-> value, next |-> next]

(* The byte order of the characters that occur in object keys. *)
KeyChars == <<"-", ".", "0", "1", "2", "3", "4", "5", "6", "7", "8", "9", "A", "B", "C", "D", "E", "F", "G", "H", "I", "J", "K", "L", "M", "N", "O", "P", "Q", "R", "S", "T", "U", "V", "W", "X", "Y", "Z", "_", "a", "b", "c", "d", "e", "f", "g", "h", "i", "j", "k", "l", "m", "n", "o", "p", "q", "r", "s", "t", "u", "v", "w", "x", "y", "z">>
CharCode(c) == CHOOSE i \in 1..Len(KeyChars) : KeyChars[i] = c
StrLess(a, b) ==
    \E i \in 1..(Len(a) + 1) :
        /\ i - 1 <= Len(b)
        /\ SubSeq(a, 1, i - 1) = SubSeq(b, 1, i - 1)
        /\ IF i > Len(a) THEN i <= Len(b)
           ELSE i <= Len(b) /\ CharCode(a[i]) < CharCode(b[i])

(* BTreeMap::insert *)
btree_insert(map, key, value) ==
    LET before == SelectSeq(map, LAMBDA m : StrLess(m.key, key))
        after == SelectSeq(map, LAMBDA m : StrLess(key, m.key))
    IN  before \o <<[key |-> key, value |-> value]>> \o after

SkipWhitespace(s, i) == RunEnd(s, i, JsonWhitespace)

ParseLiteral(s, i, word, value) ==
    IF i + Len(word) - 1 <= Len(s) /\ SubSeq(s, i, i + Len(word) - 1) = word
    THEN JsonAt(value, i + Len(word))
    ELSE JsonErr

(* A string that opens at i: up to the next quote, with no control         *)
(* character and no byte that is not UTF-8.                                *)
ParseString(s, i) ==
    LET quotes == {k \in (i + 1)..Len(s) : s[k] = "\""}
    IN  IF quotes = {} THEN JsonErr
        ELSE LET k == CHOOSE q \in quotes : \A r \in quotes : q <= r
                 body == SubSeq(s, i + 1, k - 1)
             IN  IF \E j \in 1..Len(body) :
                        body[j] \in {"\n", "\t", "\r", "\\", InvalidByte}
                 THEN JsonErr
                 ELSE JsonAt(body, k + 1)

(* An unsigned integer that starts at i; after a leading 0 the number ends. *)
ParseNumber(s, i) ==
    LET end == IF s[i] = "0" THEN i + 1 ELSE RunEnd(s, i, AsciiDigits)
    IN  JsonAt([t |-> "number", v |-> SubSeq(s, i, end - 1)], end)

RECURSIVE ParseValue(_, _), ParseElements(_, _, _), ParseMembers(_, _, _)
ParseValue(s, i) ==
    LET j == SkipWhitespace(s, i)
        c == At(s, j)
    IN  CASE c = "n" -> ParseLiteral(s, j, <<"n", "u", "l", "l">>, [t |-> "null"])
          [] c = "t" -> ParseLiteral(s, j, <<"t", "r", "u", "e">>, [t |-> "bool", v |-> TRUE])
          [] c = "f" -> ParseLiteral(s, j, <<"f", "a", "l", "s", "e">>, [t |-> "bool", v |-> FALSE])
          [] c = "\"" ->
                LET str == ParseString(s, j)
                IN  IF str.ok THEN JsonAt([t |-> "string", v |-> str.val], str.next)
                    ELSE JsonErr
          [] c \in AsciiDigits -> ParseNumber(s, j)
          [] c = "[" ->
                LET k == SkipWhitespace(s, j + 1)
                IN  IF At(s, k) = "]" THEN JsonAt([t |-> "array", v |-> <<>>], k + 1)
                    ELSE ParseElements(s, j + 1, <<>>)
          [] c = "{" ->
                LET k == SkipWhitespace(s, j + 1)
                IN  IF At(s, k) = "}" THEN JsonAt([t |-> "object", v |-> <<>>], k + 1)
                    ELSE ParseMembers(s, j + 1, <<>>)
          [] OTHER -> JsonErr

(* The elements of an array from i on: a value, then "," or "]". *)
ParseElements(s, i, acc) ==
    LET element == ParseValue(s, i)
    IN  IF ~element.ok THEN JsonErr
        ELSE LET k == SkipWhitespace(s, element.next)
                 c == At(s, k)
             IN  IF c = "," THEN ParseElements(s, k + 1, Append(acc, element.val))
                 ELSE IF c = "]"
                 THEN JsonAt([t |-> "array", v |-> Append(acc, element.val)], k + 1)
                 ELSE JsonErr

(* The members of an object from i on: a key, ":", a value, then "," or "}". *)
ParseMembers(s, i, acc) ==
    LET j == SkipWhitespace(s, i)
        key == IF At(s, j) = "\"" THEN ParseString(s, j) ELSE JsonErr
    IN  IF ~key.ok THEN JsonErr
        ELSE LET colon == SkipWhitespace(s, key.next)
                 value == IF At(s, colon) = ":" THEN ParseValue(s, colon + 1) ELSE JsonErr
             IN  IF ~value.ok THEN JsonErr
                 ELSE LET k == SkipWhitespace(s, value.next)
                          c == At(s, k)
                          map == btree_insert(acc, key.val, value.val)
                      IN  IF c = "," THEN ParseMembers(s, k + 1, map)
                          ELSE IF c = "}" THEN JsonAt([t |-> "object", v |-> map], k + 1)
                          ELSE JsonErr

(* serde_json::from_slice: one value, and only whitespace after it. *)
from_slice(bytes) ==
    LET value == ParseValue(bytes, 1)
    IN  IF ~value.ok THEN JsonErr
        ELSE IF SkipWhitespace(bytes, value.next) <= Len(bytes) THEN JsonErr
        ELSE Ok(value.val)

(* Value::to_string: the compact form, without whitespace. *)
RECURSIVE to_string(_), JoinValues(_), JoinMembers(_)
JoinValues(values) ==
    IF Len(values) = 0 THEN <<>>
    ELSE to_string(values[1])
            \o (IF Len(values) = 1 THEN <<>> ELSE <<",">> \o JoinValues(Tail(values)))
JoinMembers(members) ==
    IF Len(members) = 0 THEN <<>>
    ELSE <<"\"">> \o members[1].key \o <<"\"", ":">> \o to_string(members[1].value)
            \o (IF Len(members) = 1 THEN <<>> ELSE <<",">> \o JoinMembers(Tail(members)))
to_string(value) ==
    CASE value.t = "null" -> <<"n", "u", "l", "l">>
      [] value.t = "bool" -> IF value.v THEN <<"t", "r", "u", "e">> ELSE <<"f", "a", "l", "s", "e">>
      [] value.t = "number" -> value.v
      [] value.t = "string" -> <<"\"">> \o value.v \o <<"\"">>
      [] value.t = "array" -> <<"[">> \o JoinValues(value.v) \o <<"]">>
      [] value.t = "object" -> <<"{">> \o JoinMembers(value.v) \o <<"}">>

(***************************************************************************)
(* Bounds of the model.                                                    *)
(***************************************************************************)
MaxVersion == 2     \* document versions are 1..MaxVersion
MaxTasks == 2       \* handlers waiting for a daemon child at one time
MaxLines == 2       \* lines of a daemon report
MaxSegments == 3    \* path segments below the root of a reported filename
MaxThreads == 3     \* handlers in progress at one time, statement by statement

(***************************************************************************)
(* The Backend (main.rs): its root directory, the documents of the editor  *)
(* and the version table.                                                  *)
(***************************************************************************)
root_dir_text == <<"/", "r", "o", "o", "t">>
root_dir == PathBufFrom(root_dir_text)

(* The documents of the editor, each named by its URI, and the Url that    *)
(* the protocol layer parses from it.                                      *)
PyDoc == "file:///root/pkg/mod.py"
MakefileDoc == "file:///root/Makefile"
OutsideDoc == "file:///other/notes.txt"
UntitledDoc == "untitled:Untitled-1"
OtherPyDoc == "file:///root/pkg/other.py"
Docs == {PyDoc, MakefileDoc, OutsideDoc}
SessionDocs == {PyDoc, OtherPyDoc}
UrlParse(uri) ==
    CASE uri = PyDoc -> Url(<<"f", "i", "l", "e">>, None, <<<<"r", "o", "o", "t">>, <<"p", "k", "g">>, <<"m", "o", "d", ".", "p", "y">>>>)
      [] uri = MakefileDoc -> Url(<<"f", "i", "l", "e">>, None, <<<<"r", "o", "o", "t">>, <<"M", "a", "k", "e", "f", "i", "l", "e">>>>)
      [] uri = OutsideDoc -> Url(<<"f", "i", "l", "e">>, None, <<<<"o", "t", "h", "e", "r">>, <<"n", "o", "t", "e", "s", ".", "t", "x", "t">>>>)
      [] uri = UntitledDoc -> OpaqueUrl(<<"u", "n", "t", "i", "t", "l", "e", "d">>)
      [] uri = OtherPyDoc -> Url(<<"f", "i", "l", "e">>, None, <<<<"r", "o", "o", "t">>, <<"p", "k", "g">>, <<"o", "t", "h", "e", "r", ".", "p", "y">>>>)
Versions == 1..MaxVersion

Configs == {[command |-> <<>>], [command |-> <<"dmypy">>]}

insert_if_absent(map, key, value) ==
    IF key \in DOMAIN map THEN map
    ELSE [k \in DOMAIN map \cup {key} |-> IF k = key THEN value ELSE map[k]]

(* HashMap::insert *)
insert(map, key, value) ==
    [k \in DOMAIN map \cup {key} |-> IF k = key THEN value ELSE map[k]]

(* HashMap::get(..).cloned() *)
get(map, key) == IF key \in DOMAIN map THEN Some(map[key]) ELSE None

unwrap_or(option, default) == IF option.some THEN option.val ELSE default

EmptyMap == [k \in {} |-> 0]

(***************************************************************************)
(* Backend::check_file, in two parts: up to the spawn of the daemon's      *)
(* "check", and from the child's exit on.                                  *)
(***************************************************************************)
is_python_any(file_path) == TRUE

(* file_path.extension().unwrap_or_else(|| OsStr::new("")) == "py" *)
is_python(file_path) == unwrap_or(extension(file_path.path_buf), <<>>) = <<"p", "y">>

(* The early returns of check_file, or the command line it is about to run. *)
check_file_begin(cfg, uri) ==
    LET file_path == from_uri(root_dir, UrlParse(uri))
        cmd == command(cfg)
    IN  IF ~file_path.ok THEN [returns |-> Some(file_path), argv |-> None]
        ELSE IF ~is_python(file_path.val) THEN [returns |-> Some(Ok("()")), argv |-> None]
        ELSE IF ~cmd.ok THEN [returns |-> Some(cmd), argv |-> None]
        ELSE [returns |-> None,
              argv |-> Some([program |-> cmd.val, args |-> <<"check", file_path.val>>])]

check_file_end_on_success(task, child) ==
    LET file_path == from_uri(root_dir, UrlParse(task.uri)).val
        diagnostics == parse_diagnostics(root_dir, file_path, child.stdout)
    IN  IF ~child.success \/ ~diagnostics.ok
        THEN [returns |-> Err("Failed to execute dmypy check"), published |-> None]
        ELSE [returns |-> Ok("()"),
              published |-> Some([uri |-> task.uri, diagnostics |-> diagnostics.val,
                                  version |-> Some(task.version)])]

(* check_file once the child has exited: log the output, parse it, publish. *)
check_file_end(task, child) ==
    LET file_path == from_uri(root_dir, UrlParse(task.uri)).val
        logged == from_utf8(child.stdout)
        diagnostics == parse_diagnostics(root_dir, file_path, child.stdout)
    IN  IF ~logged.ok
        THEN [returns |-> Panic("unwrap on Utf8Error"), published |-> None]
        ELSE IF ~diagnostics.ok
        THEN [returns |-> diagnostics, published |-> None]
        ELSE [returns |-> Ok("()"),
              published |-> Some([uri |-> task.uri, diagnostics |-> diagnostics.val,
                                  version |-> Some(task.version)])]

(***************************************************************************)
(* The request handlers that run the daemon: initialize, hover, shutdown.  *)
(* Each is given what its children do and yields the commands it ran to    *)
(* their end, in order, and what it returns to the protocol layer.         *)
(***************************************************************************)
(* tower_lsp::jsonrpc::Error, Error::internal_error() and From<Error>. *)
JsonRpcError(code, message) == [code |-> code, message |-> message]
internal_error == JsonRpcError("InternalError", "Internal error")
JsonRpcFrom(error) == JsonRpcError("InternalError", error)

(* The unit value of a request that returns nothing. *)
Unit == [unit |-> TRUE]

(* Command::status of a child: only whether it ran and how it exited. *)
Exited(success) == [spawned |-> TRUE, success |-> success]

Ran(cmd, args, child) == [argv |-> [program |-> cmd.val, args |-> args], child |-> child]

RUN_ARGS ==
    <<"run", "--", "--show-absolute-path", "--show-column-numbers", "--show-error-end",
      "--hide-error-codes", "--hide-error-context", "--no-color-output",
      "--no-error-summary", "--no-pretty", ".">>

InitializeResult ==
    [capabilities |-> [text_document_sync |-> "FULL",
                       diagnostic_provider |-> [inter_file_dependencies |-> FALSE,
                                                workspace_diagnostics |-> FALSE],
                       hover_provider |-> TRUE],
     server_info |-> [name |-> "dmypyls", version |-> None]]

initialize_always_run(cfg, status, run) ==
    LET cmd == command(cfg)
    IN  IF ~cmd.ok THEN [ran |-> <<>>, returns |-> Err(JsonRpcFrom(cmd.err))]
        ELSE [ran |-> <<Ran(cmd, <<"status">>, status), Ran(cmd, RUN_ARGS, run)>>,
              returns |-> Ok(InitializeResult)]

initialize_run_fatal(cfg, status, run) ==
    LET running == dmypy_is_running(cfg, status)
        cmd == command(cfg)
        probe == <<Ran(cmd, <<"status">>, status)>>
    IN  IF IsPanic(running) THEN [ran |-> probe, returns |-> running]
        ELSE IF ~running.ok THEN [ran |-> <<>>, returns |-> Err(JsonRpcFrom(running.err))]
        ELSE IF running.val THEN [ran |-> probe, returns |-> Ok(InitializeResult)]
        ELSE [ran |-> probe \o <<Ran(cmd, RUN_ARGS, run)>>,
              returns |-> IF run.spawned /\ run.success THEN Ok(InitializeResult)
                          ELSE Err(internal_error)]

initialize_call(cfg, status, run) ==
    LET running == dmypy_is_running(cfg, status)
        cmd == command(cfg)
        probe == <<Ran(cmd, <<"status">>, status)>>
    IN  IF IsPanic(running) THEN [ran |-> probe, returns |-> running]
        ELSE IF ~running.ok THEN [ran |-> <<>>, returns |-> Err(JsonRpcFrom(running.err))]
        ELSE IF ~running.val
        THEN IF ~cmd.ok THEN [ran |-> probe, returns |-> Err(JsonRpcFrom(cmd.err))]
             ELSE [ran |-> probe \o <<Ran(cmd, RUN_ARGS, run)>>,
                   returns |-> Ok(InitializeResult)]
        ELSE [ran |-> probe, returns |-> Ok(InitializeResult)]

shutdown_best_effort(cfg, child) ==
    LET cmd == command(cfg)
    IN  IF ~cmd.ok THEN [ran |-> <<>>, returns |-> Ok(Unit)]
        ELSE [ran |-> <<Ran(cmd, <<"stop">>, child)>>, returns |-> Ok(Unit)]

shutdown_propagates(cfg, child) ==
    LET cmd == command(cfg)
    IN  IF ~cmd.ok THEN [ran |-> <<>>, returns |-> Err(JsonRpcFrom(cmd.err))]
        ELSE [ran |-> <<Ran(cmd, <<"stop">>, child)>>,
              returns |-> IF child.spawned /\ child.success THEN Ok(Unit)
                          ELSE Err(internal_error)]

shutdown_call(cfg, child) ==
    LET cmd == command(cfg)
    IN  IF ~cmd.ok THEN [ran |-> <<>>, returns |-> Err(JsonRpcFrom(cmd.err))]
        ELSE [ran |-> <<Ran(cmd, <<"stop">>, child)>>, returns |-> Ok(Unit)]

(* Url::path of a URL with path segments: the segments as they are in the  *)
(* URL, percent-encoded.                                                   *)
path(uri) == Concat([i \in 1..Len(uri.segments) |-> <<"/">> \o uri.segments[i]])

(* Path::canonicalize of an absolute path without "." or ".." and without  *)
(* symbolic links: the path itself when the file is there.                 *)
canonicalize(file, found) ==
    IF found THEN Ok(PathBufFrom(file)) ELSE Err("No such file or directory")

Hover(contents) == [contents |-> contents, range |-> None]

hover_call(cfg, uri, found, child) ==
    LET file_path == canonicalize(path(UrlParse(uri)), found)
        cmd == command(cfg)
        inspect == <<Ran(cmd, <<"inspect", file_path.val>>, child)>>
    IN  IF ~file_path.ok
        THEN [ran |-> <<>>,
              returns |-> Err(JsonRpcError("InvalidParams", "No document found for url"))]
        ELSE IF ~cmd.ok THEN [ran |-> <<>>, returns |-> Err(JsonRpcFrom(cmd.err))]
        ELSE IF ~child.spawned THEN [ran |-> inspect, returns |-> Err(internal_error)]
        ELSE IF child.success
        THEN LET inspect_output == from_slice(child.stdout)
             IN  IF ~inspect_output.ok
                 THEN [ran |-> inspect, returns |-> Panic("unwrap on serde_json::Error")]
                 ELSE [ran |-> inspect,
                       returns |-> Ok(Some(Hover(to_string(inspect_output.val))))]
        ELSE [ran |-> inspect, returns |-> Ok(None)]

(***************************************************************************)
(* The daemon's reports.  A report is a sequence of entries; an entry      *)
(* keeps what the daemon meant (file, positions, message) beside the line  *)
(* it printed, so that a property can compare the parser's result with     *)
(* what was reported.                                                      *)
(***************************************************************************)
(* <filename>:<line>:<col>:<endline>:<endcol>: <severity>: <message> *)
Format(file, pos, severity, message) ==
    file \o <<":">> \o pos[1] \o <<":">> \o pos[2] \o <<":">> \o pos[3] \o <<":">> \o pos[4]
         \o <<":", " ">> \o severity \o <<":", " ">> \o message

Reported(kind, file, pos, nums, severity, message) ==
    [kind |-> kind, text |-> Format(file, pos, severity, message), file |-> file,
     nums |-> nums, severity |-> severity, message |-> message]
Malformed(text, message) ==
    [kind |-> "malformed", text |-> text, file |-> <<>>, nums |-> <<>>,
     severity |-> <<>>, message |-> message]

TargetRel == <<"p", "k", "g", "/", "m", "o", "d", ".", "p", "y">>
TargetAbs == <<"/", "r", "o", "o", "t", "/", "p", "k", "g", "/", "m", "o", "d", ".", "p", "y">>
Pos3 == <<<<"3">>, <<"1">>, <<"3">>, <<"1", "0">>>>
Num3 == <<U32(3), U32(1), U32(3), U32(10)>>
Incompatible == <<"I", "n", "c", "o", "m", "p", "a", "t", "i", "b", "l", "e", " ", "t", "y", "p", "e">>

EndToEnd ==
    Reported("diag", TargetAbs, <<<<"1", "0">>, <<"3">>, <<"1", "0">>, <<"1", "5">>>>,
             <<U32(10), U32(3), U32(10), U32(15)>>, <<"e", "r", "r", "o", "r">>,
             <<"A", "r", "g", "u", "m", "e", "n", "t", " ", "1", " ", "h", "a", "s", " ", "i", "n", "c", "o", "m", "p", "a", "t", "i", "b", "l", "e", " ", "t", "y", "p", "e">>)
RelError == Reported("diag", TargetRel, Pos3, Num3, <<"e", "r", "r", "o", "r">>, Incompatible)
AbsError == Reported("diag", TargetAbs, Pos3, Num3, <<"e", "r", "r", "o", "r">>, Incompatible)
RelNote == Reported("diag", TargetRel, Pos3, Num3, <<"n", "o", "t", "e">>, Incompatible)
RelCapital == Reported("diag", TargetRel, Pos3, Num3, <<"E", "r", "r", "o", "r">>, Incompatible)
OtherFile == Reported("diag", <<"p", "k", "g", "/", "o", "t", "h", "e", "r", ".", "p", "y">>, Pos3, Num3, <<"e", "r", "r", "o", "r">>, Incompatible)
OtherRoot == Reported("diag", <<"/", "o", "t", "h", "e", "r", "/", "p", "k", "g", "/", "m", "o", "d", ".", "p", "y">>, Pos3, Num3, <<"e", "r", "r", "o", "r">>, Incompatible)
DotRelative == Reported("diag", <<".", "/", "p", "k", "g", "/", "m", "o", "d", ".", "p", "y">>, Pos3, Num3, <<"e", "r", "r", "o", "r">>, Incompatible)
ZeroOne ==
    Reported("diag", TargetRel, <<<<"0">>, <<"0">>, <<"1">>, <<"1">>>>,
             <<U32(0), U32(0), U32(1), U32(1)>>, <<"e", "r", "r", "o", "r">>, <<"z", "e", "r", "o">>)
Largest ==
    Reported("diag", TargetRel, <<<<"4", "2", "9", "4", "9", "6", "7", "2", "9", "5">>, <<"6", "5", "5", "3", "6">>, <<"2">>, <<"6", "5", "5", "3", "7">>>>,
             <<[hi |-> 65535, lo |-> 65535], [hi |-> 1, lo |-> 0], U32(2),
               [hi |-> 1, lo |-> 1]>>, <<"e", "r", "r", "o", "r">>, <<"b", "i", "g">>)
Nested ==
    Reported("nested", TargetRel, Pos3, Num3, <<"e", "r", "r", "o", "r">>,
             <<"s", "e", "e", " ", "p", "k", "g", "/", "o", "t", "h", "e", "r", ".", "p", "y", ":", "1", ":", "1", ":", "1", ":", "1", ":", " ", "n", "o", "t", "e", ":", " ", "h", "e", "r", "e">>)
TooLarge ==
    Malformed(<<"p", "k", "g", "/", "m", "o", "d", ".", "p", "y", ":", "4", "2", "9", "4", "9", "6", "7", "2", "9", "6", ":", "1", ":", "3", ":", "1", "0", ":", " ", "e", "r", "r", "o", "r", ":", " ", "r", "a", "n", "g", "e">>, <<"r", "a", "n", "g", "e">>)
ForeignDigit ==
    Malformed(<<"p", "k", "g", "/", "m", "o", "d", ".", "p", "y", ":", "U0663", ":", "1", ":", "3", ":", "1", "0", ":", " ", "e", "r", "r", "o", "r", ":", " ", "d", "i", "g", "i", "t">>, <<"d", "i", "g", "i", "t">>)
FewFields == Malformed(<<"p", "k", "g", "/", "m", "o", "d", ".", "p", "y", ":", "3", ":", "1", ":", "3", ":", " ", "e", "r", "r", "o", "r", ":", " ", "t", "h", "r", "e", "e">>, <<"t", "h", "r", "e", "e">>)
ManyFields == Malformed(<<"p", "k", "g", "/", "m", "o", "d", ".", "p", "y", ":", "3", ":", "1", ":", "3", ":", "1", "0", ":", "7", ":", " ", "e", "r", "r", "o", "r", ":", " ", "f", "i", "v", "e">>, <<"f", "i", "v", "e">>)
NonNumeric == Malformed(<<"p", "k", "g", "/", "m", "o", "d", ".", "p", "y", ":", "x", ":", "1", ":", "3", ":", "1", "0", ":", " ", "e", "r", "r", "o", "r", ":", " ", "l", "e", "t", "t", "e", "r">>, <<"l", "e", "t", "t", "e", "r">>)
Negative == Malformed(<<"p", "k", "g", "/", "m", "o", "d", ".", "p", "y", ":", "-", "3", ":", "1", ":", "3", ":", "1", "0", ":", " ", "e", "r", "r", "o", "r", ":", " ", "m", "i", "n", "u", "s">>, <<"m", "i", "n", "u", "s">>)
MissingColon == Malformed(<<"p", "k", "g", "/", "m", "o", "d", ".", "p", "y", ":", "3", ":", "1", ":", "3", ":", "1", "0", " ", "e", "r", "r", "o", "r", ":", " ", "c", "o", "l", "o", "n">>, <<"c", "o", "l", "o", "n">>)
Banner == Malformed(<<"D", "a", "e", "m", "o", "n", " ", "s", "t", "a", "r", "t", "e", "d">>, <<"D", "a", "e", "m", "o", "n", " ", "s", "t", "a", "r", "t", "e", "d">>)
Summary == Malformed(<<"F", "o", "u", "n", "d", " ", "1", " ", "e", "r", "r", "o", "r", " ", "i", "n", " ", "1", " ", "f", "i", "l", "e", " ", "(", "c", "h", "e", "c", "k", "e", "d", " ", "1", " ", "s", "o", "u", "r", "c", "e", " ", "f", "i", "l", "e", ")">>, <<"F", "o", "u", "n", "d">>)
EmptyLine == Malformed(<<>>, <<>>)
NotText ==
    [kind |-> "not_text", text |-> <<InvalidByte>>, file |-> <<>>, nums |-> <<>>,
     severity |-> <<>>, message |-> <<>>]

Entries ==
    {EndToEnd, RelError, AbsError, RelNote, RelCapital, OtherFile, OtherRoot,
     DotRelative, ZeroOne, Largest, Nested, TooLarge, ForeignDigit, FewFields,
     ManyFields, NonNumeric, Negative, MissingColon, Banner, Summary, EmptyLine,
     NotText}

SeqsUpTo(S, n) == UNION {[1..k -> S] : k \in 0..n}

(* The bytes of a report: each entry's line and a newline. *)
Render(report) == Concat([i \in 1..Len(report) |-> report[i].text \o <<"\n">>])

Target == from_uri(root_dir, UrlParse(PyDoc)).val

ParseCalls ==
    {[fn |-> "parse_diagnostics", target |-> Target, report |-> r] :
        r \in SeqsUpTo(Entries, MaxLines)}

(***************************************************************************)
(* Filenames for the path reconciler: under the root, relative, elsewhere. *)
(***************************************************************************)
PathSegments == {<<"a">>, <<"m", ".", "p", "y">>, <<".">>, <<".", ".">>, <<>>, <<"a", " ", "b">>, <<"%", "2", "0">>}
Below(segments) == Concat([i \in 1..Len(segments) |-> <<"/">> \o segments[i]])
PathCalls ==
    {[fn |-> "RelPathBuf", filename |-> root_dir_text \o Below(ss), rooted |-> TRUE] :
        ss \in SeqsUpTo(PathSegments, MaxSegments)}
    \cup {[fn |-> "RelPathBuf", filename |-> Tail(Below(ss)), rooted |-> FALSE] :
            ss \in SeqsUpTo(PathSegments, 2) \ {<<>>}}
    \cup {[fn |-> "RelPathBuf", filename |-> <<"/", "o", "t", "h", "e", "r">> \o Below(ss), rooted |-> FALSE] :
            ss \in SeqsUpTo(PathSegments, 1)}
    \cup {[fn |-> "RelPathBuf", filename |-> <<"/", "r", "o", "o", "t", "e", "d">> \o Below(ss), rooted |-> FALSE] :
            ss \in SeqsUpTo(PathSegments, 1)}

(***************************************************************************)
(* What the child spawned for "status" can print.                          *)
(***************************************************************************)
StatusStdouts ==
    {STATUS_BANNER, STATUS_BANNER \o <<"\n">>, STATUS_BANNER \o <<" ", "(", "p", "i", "d", " ", "7", ")", "\n">>,
     <<>>, <<"D", "a", "e", "m", "o", "n", " ", "i", "s", " ", "u", "p">>, <<"N", "o", " ", "s", "t", "a", "t", "u", "s", " ", "f", "i", "l", "e", " ", "f", "o", "u", "n", "d", "\n">>,
     <<" ">> \o STATUS_BANNER, <<"d", "a", "e", "m", "o", "n", " ", "i", "s", " ", "u", "p", " ", "a", "n", "d", " ", "r", "u", "n", "n", "i", "n", "g">>,
     <<InvalidByte>>, STATUS_BANNER \o <<InvalidByte>>}
Children ==
    {SpawnError} \cup {Output(s, b) : s \in StatusStdouts, b \in BOOLEAN}
ProbeCalls ==
    {[fn |-> "dmypy_is_running", config |-> c, child |-> ch] :
        c \in Configs, ch \in Children}

Calls == ParseCalls \cup PathCalls \cup ProbeCalls
NoCall == [fn |-> "none"]

(***************************************************************************)
(* The handlers statement by statement, for the Mutex of the version       *)
(* table.  A handler in progress is at one of these places:                *)
(*   "lock"     about to call self.versions.lock()                         *)
(*   "locked"   holding the MutexGuard, about to insert or get             *)
(*   "spawn"    about to run a command of the daemon                       *)
(*   "child"    inside Command::output or Command::status                  *)
(*   "return"   about to return, which drops what it still holds           *)
(***************************************************************************)
Threads == 1..MaxThreads
Handlers == {"did_open", "did_change", "did_save", "initialize", "hover", "shutdown"}
Idle == [handler |-> "none", pc |-> "idle", command |-> "none", guard |-> FALSE]

(* The handlers that use the version table, and the command a handler runs first. *)
UsesVersions(handler) == handler \in {"did_open", "did_change", "did_save"}
FirstCommand(handler) ==
    CASE handler = "initialize" -> "status"
      [] handler = "hover" -> "inspect"
      [] handler = "shutdown" -> "stop"
      [] OTHER -> "check"

guard_scope_binding(handler) == "function"

(* How long the MutexGuard of self.versions.lock().unwrap() lives: it is a *)
(* temporary of the statement that inserts or gets, dropped at its end.    *)
guard_scope(handler) == "statement"

(***************************************************************************)
(* The specification of the pure functions: a call is drawn, then made.    *)
(***************************************************************************)
NoEffect ==
    [handler |-> "none", phase |-> "none", uri |-> None, version |-> None,
     invoked |-> None, child |-> None, published |-> None, returned |-> None,
     ran |-> <<>>, reply |-> None]

ServerInit ==
    /\ config \in Configs
    /\ versions = EmptyMap
    /\ tasks = EmptyBag
    /\ effect = NoEffect
    /\ alive = TRUE
    /\ recorded = EmptyMap
    /\ daemon_run = None
    /\ lock = FALSE
    /\ threads = [t \in Threads |-> Idle]

InitFn ==
    /\ ServerInit
    /\ config = [command |-> <<"dmypy">>]
    /\ call \in Calls
    /\ returned = None

CallParseDiagnostics ==
    /\ call.fn = "parse_diagnostics"
    /\ ~returned.some
    /\ returned' = Some(parse_diagnostics(root_dir, call.target, Render(call.report)))
    /\ UNCHANGED <<call, server_vars>>

CallRelPathBuf ==
    /\ call.fn = "RelPathBuf"
    /\ ~returned.some
    /\ returned' = Some([by_filename |-> from_filename(root_dir, call.filename),
                         by_uri |-> from_uri(root_dir,
                             from_file_path(PathJoin(root_dir_text, call.filename)).val)])
    /\ UNCHANGED <<call, server_vars>>

CallDmypyIsRunning ==
    /\ call.fn = "dmypy_is_running"
    /\ ~returned.some
    /\ returned' = Some(dmypy_is_running(call.config, call.child))
    /\ UNCHANGED <<call, server_vars>>

NextFn == CallParseDiagnostics \/ CallRelPathBuf \/ CallDmypyIsRunning

SpecFn == InitFn /\ [][NextFn]_vars

(***************************************************************************)
(* Properties of the diagnostic parser, under SpecFn.                      *)
(***************************************************************************)
ParseReturned == call.fn = "parse_diagnostics" /\ returned.some
IsText(report) == \A j \in DOMAIN report : report[j].kind # "not_text"

(* The reported filename names the target document. *)
Reconciles(file) ==
    LET filename == from_filename(root_dir, file)
    IN  filename.ok /\ filename.val = call.target

U32Succ(n) ==
    IF n.lo = U32Half - 1 THEN [hi |-> n.hi + 1, lo |-> 0]
    ELSE [hi |-> n.hi, lo |-> n.lo + 1]
IsU32(n) == n.hi \in 0..(U32Half - 1) /\ n.lo \in 0..(U32Half - 1)

(* c is max(p - 1, 0) *)
Decremented(p, c) == IsU32(c) /\ IF p = U32(0) THEN c = U32(0) ELSE U32Succ(c) = p

(* Record d is what entry e reports: its message, and its positions less one. *)
Explains(e, d) ==
    /\ d.message = e.message
    /\ Decremented(e.nums[1], d.range.start.line)
    /\ Decremented(e.nums[2], d.range.start.character)
    /\ Decremented(e.nums[3], d.range.end.line)
    /\ Decremented(e.nums[4], d.range.end.character)

(* C3: every diagnostic that parse_diagnostics returns comes from a line    *)
(* whose filename reconciles to the target's RelPathBuf; a line for another *)
(* file, or for a file outside the root, leaves nothing in the result.      *)
CrossFileSuppression ==
    (ParseReturned /\ returned.val.ok) =>
        \A i \in DOMAIN returned.val.val :
            \E j \in DOMAIN call.report :
                /\ call.report[j].kind = "diag"
                /\ Reconciles(call.report[j].file)
                /\ Explains(call.report[j], returned.val.val[i])

CrossFileSuppressionWitness ==
    /\ ParseReturned
    /\ call.report = <<RelError, OtherFile>>
    /\ returned.val.ok
    /\ Len(returned.val.val) = 1

(* The report with each entry kept once, at its first place. *)
RECURSIVE Squash(_)
Squash(report) ==
    IF Len(report) = 0 THEN <<>>
    ELSE LET front == Squash(SubSeq(report, 1, Len(report) - 1))
             last == report[Len(report)]
         IN  IF \E k \in DOMAIN front : front[k] = last THEN front
             ELSE Append(front, last)

Range_of(seq) == {seq[i] : i \in DOMAIN seq}
DedupKey(d) == <<d.range, d.message, d.severity>>

(* C4: no two records of the result have the same (range, message,         *)
(* severity), so lines that yield identical records give one record; and a *)
(* line repeated in the report gives the result of the line given once.    *)
Deduplication ==
    (ParseReturned /\ returned.val.ok) =>
        /\ \A i, j \in DOMAIN returned.val.val :
              DedupKey(returned.val.val[i]) = DedupKey(returned.val.val[j]) => i = j
        /\ Range_of(returned.val.val) =
              Range_of(parse_diagnostics(root_dir, call.target,
                                         Render(Squash(call.report))).val)

DeduplicationWitness ==
    /\ ParseReturned
    /\ Len(call.report) = 2
    /\ call.report[1].kind = "diag" /\ Reconciles(call.report[1].file)
    /\ call.report[2].kind = "diag" /\ Reconciles(call.report[2].file)
    /\ call.report[1].text # call.report[2].text
    /\ returned.val.ok
    /\ Len(returned.val.val) = 1

(* C5: the end-to-end line gives one diagnostic with range (9,2)-(9,14),   *)
(* severity Error and its message.                                         *)
EndToEndParse ==
    (ParseReturned /\ call.report = <<EndToEnd>>) =>
        returned.val =
            Ok(<<Diagnostic(Range(Position(U32(9), U32(2)), Position(U32(9), U32(14))),
                            <<"A", "r", "g", "u", "m", "e", "n", "t", " ", "1", " ", "h", "a", "s", " ", "i", "n", "c", "o", "m", "p", "a", "t", "i", "b", "l", "e", " ", "t", "y", "p", "e">>, Some("ERROR"))>>)

WellFormed(report) ==
    LET keep == {j \in DOMAIN report : report[j].kind # "malformed"}
        nth(k) == CHOOSE j \in keep : Cardinality({m \in keep : m <= j}) = k
    IN  [k \in 1..Cardinality(keep) |-> report[nth(k)]]

(* C6: a malformed line yields no record and no error, and the other lines *)
(* of the report are parsed as they are without it.                        *)
MalformedLinesSkipped ==
    (ParseReturned /\ IsText(call.report)) =>
        /\ returned.val.ok
        /\ returned.val =
              parse_diagnostics(root_dir, call.target, Render(WellFormed(call.report)))
        /\ (\A j \in DOMAIN call.report : call.report[j].kind = "malformed")
              => returned.val.val = <<>>

MalformedLinesSkippedWitness ==
    /\ ParseReturned
    /\ Len(call.report) = 2
    /\ call.report[1] = TooLarge
    /\ call.report[2] = RelError
    /\ returned.val.ok
    /\ Len(returned.val.val) = 1

(* C7: each of the four positions p of a reported line is max(p - 1, 0) in  *)
(* the record made from it, a u32 that neither goes below 0 nor wraps.      *)
SaturatingRange ==
    (ParseReturned /\ returned.val.ok) =>
        \A j \in DOMAIN call.report :
            (call.report[j].kind = "diag" /\ Reconciles(call.report[j].file)) =>
                \E i \in DOMAIN returned.val.val :
                    Explains(call.report[j], returned.val.val[i])

SaturatingRangeWitness ==
    /\ ParseReturned
    /\ call.report = <<ZeroOne, Largest>>
    /\ returned.val.ok
    /\ Len(returned.val.val) = 2
    /\ returned.val.val[1].range = Range(Position(U32(0), U32(0)), Position(U32(0), U32(0)))
    /\ returned.val.val[2].range.start.line = [hi |-> 65535, lo |-> 65534]

(***************************************************************************)
(* Properties of the liveness probe and of the path reconciler.            *)
(***************************************************************************)
(* C8: with a command to run, dmypy_is_running returns true when the child *)
(* was spawned and its output begins with the banner, and false otherwise; *)
(* it returns no error and does not panic.                                 *)
LivenessProbe ==
    (call.fn = "dmypy_is_running" /\ returned.some /\ command(call.config).ok) =>
        returned.val =
            Ok(IF call.child.spawned
               THEN from_utf8(call.child.stdout).ok
                        /\ starts_with(call.child.stdout, STATUS_BANNER)
               ELSE FALSE)

(* C9: for an absolute filename under the root, from_filename and from_uri *)
(* of the file URI of the joined path give the same RelPathBuf.            *)
PathRoutesAgree ==
    (call.fn = "RelPathBuf" /\ returned.some /\ call.rooted) =>
        /\ returned.val.by_filename.ok
        /\ returned.val.by_filename = returned.val.by_uri

PathRoutesAgreeWitness ==
    /\ call.fn = "RelPathBuf"
    /\ returned.some
    /\ call.filename = <<"/", "r", "o", "o", "t", "/", "a", " ", "b", "/", "%", "2", "0", "/", "m", ".", "p", "y">>
    /\ returned.val.by_uri = Ok(RelPathBuf(root_dir, <<<<"a", " ", "b">>, <<"%", "2", "0">>, <<"m", ".", "p", "y">>>>))

(***************************************************************************)
(* The server.  The protocol layer runs one handler per notification and   *)
(* the handlers run concurrently.  A handler's accesses to the version     *)
(* table are under the table's Mutex; from there to the spawn of the       *)
(* daemon it touches nothing shared, so a handler is two steps: from its   *)
(* start to the spawn of the child, and from the child's exit to its end.  *)
(* Between the two, other handlers run.                                    *)
(***************************************************************************)
(* What the child spawned for "check" can print. *)
CheckStdouts ==
    {Render(<<>>), Render(<<RelError>>), Render(<<AbsError, OtherFile>>),
     Render(<<NotText>>)}
CheckChildren == {Output(s, b) : s \in CheckStdouts, b \in BOOLEAN}
SessionCheckChildren ==
    {Output(Render(<<AbsError, OtherFile>>), FALSE), Output(Render(<<NotText>>), TRUE)}

(* The handlers that can wait for a child, and check_file tabulated over   *)
(* its arguments: each value is computed once.                             *)
Waiting ==
    {[handler |-> h, uri |-> u, version |-> v] :
        h \in {"did_open", "did_save"},
        u \in {d \in Docs \cup SessionDocs :
                   check_file_begin([command |-> <<"dmypy">>], d).argv.some},
        v \in {0} \cup Versions}
check_file_begins == [c \in Configs, u \in Docs \cup SessionDocs |-> check_file_begin(c, u)]
check_file_ends == [t \in Waiting, c \in CheckChildren |-> check_file_end(t, c)]

Init ==
    /\ ServerInit
    /\ call = NoCall
    /\ returned = None

(* did_open and did_save from the call of check_file to the spawn of the   *)
(* child, or to the return of check_file when it returns before that.      *)
StartCheck(handler, uri, version) ==
    LET begin == check_file_begins[config, uri]
        here == [handler |-> handler, phase |-> "begin", uri |-> Some(uri),
                 version |-> Some(version), invoked |-> begin.argv, child |-> None,
                 published |-> None, returned |-> begin.returns, ran |-> <<>>,
                 reply |-> None]
    IN  IF begin.returns.some
        THEN /\ tasks' = tasks
             /\ effect' = here
        ELSE \E spawned \in BOOLEAN :
                IF spawned
                THEN /\ tasks' = tasks (+) SetToBag(
                                    {[handler |-> handler, uri |-> uri, version |-> version]})
                     /\ effect' = here
                ELSE /\ tasks' = tasks
                     /\ effect' = [here EXCEPT !.child = Some(SpawnError),
                                        !.returned = Some(Err("Failed to execute dmypy check"))]

did_open(uri, version) ==
    /\ alive
    /\ BagCardinality(tasks) < MaxTasks
    /\ versions' = insert(versions, uri, version)
    /\ recorded' = [d \in DOMAIN recorded \cup {uri} |->
                        IF d = uri THEN version ELSE recorded[d]]
    /\ StartCheck("did_open", uri, version)
    /\ UNCHANGED <<config, alive, daemon_run, lock, threads, call, returned>>

did_change_and_check(uri, version) ==
    /\ alive
    /\ BagCardinality(tasks) < MaxTasks
    /\ versions' = insert(versions, uri, version)
    /\ recorded' = [d \in DOMAIN recorded \cup {uri} |->
                        IF d = uri THEN version ELSE recorded[d]]
    /\ StartCheck("did_change", uri, version)
    /\ UNCHANGED <<config, alive, daemon_run, lock, threads, call, returned>>

did_change(uri, version) ==
    /\ alive
    /\ versions' = insert(versions, uri, version)
    /\ recorded' = [d \in DOMAIN recorded \cup {uri} |->
                        IF d = uri THEN version ELSE recorded[d]]
    /\ effect' = [NoEffect EXCEPT !.handler = "did_change", !.phase = "begin",
                                  !.uri = Some(uri), !.version = Some(version)]
    /\ UNCHANGED <<config, tasks, alive, daemon_run, lock, threads, call, returned>>

did_save(uri) ==
    /\ alive
    /\ BagCardinality(tasks) < MaxTasks
    /\ StartCheck("did_save", uri, unwrap_or(get(versions, uri), 0))
    /\ UNCHANGED <<config, versions, recorded, alive, daemon_run, lock, threads, call, returned>>

(* The child of a waiting handler exits: check_file goes on to its end. *)
check_file_returns(task, child) ==
    LET end == check_file_ends[task, child]
    IN  /\ alive
        /\ BagIn(task, tasks)
        /\ tasks' = tasks (-) SetToBag({task})
        /\ effect' = [handler |-> task.handler, phase |-> "end", uri |-> Some(task.uri),
                      version |-> Some(task.version), invoked |-> None,
                      child |-> Some(child), published |-> end.published,
                      returned |-> Some(end.returns), ran |-> <<>>, reply |-> None]
        /\ alive' = ~IsPanic(end.returns)
        /\ UNCHANGED <<config, versions, recorded, daemon_run, lock, threads, call, returned>>

(* What the children of the request handlers can do: the child spawned for *)
(* "status", for "run" (its output is not captured), for "inspect" and for *)
(* "stop".                                                                 *)
StatusChildren ==
    {SpawnError, Output(STATUS_BANNER \o <<"\n">>, TRUE),
     Output(<<"N", "o", " ", "s", "t", "a", "t", "u", "s", " ", "f", "i", "l", "e", " ", "f", "o", "u", "n", "d", "\n">>, FALSE), Output(<<InvalidByte>>, TRUE)}
RunChildren == {SpawnError, Exited(TRUE), Exited(FALSE)}
InspectStdouts ==
    {<<"\"", "b", "u", "i", "l", "t", "i", "n", "s", ".", "i", "n", "t", "\"", "\n">>,
     <<"{">> \o <<"\"", "b", "\"", ":", " ", "1", ",", " ", "\"", "a", "\"", ":", " ", "[", "t", "r", "u", "e", ",", " ", "n", "u", "l", "l", "]">> \o <<"}", "\n">>,
     <<"b", "u", "i", "l", "t", "i", "n", "s", ".", "i", "n", "t", "\n">>, <<>>, <<InvalidByte>>}
InspectChildren == {SpawnError} \cup {Output(s, b) : s \in InspectStdouts, b \in BOOLEAN}
StopChildren == {SpawnError, Output(<<"D", "a", "e", "m", "o", "n", " ", "s", "t", "o", "p", "p", "e", "d", "\n">>, TRUE), Output(<<>>, FALSE)}

(* The request handlers tabulated over their arguments. *)
initialize_calls ==
    [c \in Configs, s \in StatusChildren, r \in RunChildren |-> initialize_call(c, s, r)]
hover_calls ==
    [c \in Configs, u \in SessionDocs, f \in BOOLEAN, i \in InspectChildren |->
        hover_call(c, u, f, i)]
shutdown_calls == [c \in Configs, s \in StopChildren |-> shutdown_call(c, s)]

(* A request handler from its start to its return.  It touches nothing     *)
(* shared, so that its steps are taken as one.                             *)
Request(handler, uri, done) ==
    /\ alive
    /\ effect' = [NoEffect EXCEPT !.handler = handler, !.phase = "whole", !.uri = uri,
                                  !.ran = done.ran, !.reply = Some(done.returns)]
    /\ alive' = ~IsPanic(done.returns)
    /\ UNCHANGED <<config, versions, tasks, recorded, lock, threads, call, returned>>

initialize(status, run) ==
    LET done == initialize_calls[config, status, run]
    IN  /\ Request("initialize", None, done)
        /\ daemon_run' = IF Len(done.ran) = 2 THEN Some(run) ELSE daemon_run

hover(uri, found, child) ==
    /\ Request("hover", Some(uri), hover_calls[config, uri, found, child])
    /\ UNCHANGED daemon_run

shutdown(child) ==
    /\ Request("shutdown", None, shutdown_calls[config, child])
    /\ UNCHANGED daemon_run

(* diagnostic: the full report of no diagnostics, whatever the document. *)
DocumentDiagnosticReport ==
    [kind |-> "full", related_documents |-> None,
     full_document_diagnostic_report |-> [result_id |-> None, items |-> <<>>]]

diagnostic(uri) ==
    /\ Request("diagnostic", Some(uri),
               [ran |-> <<>>, returns |-> Ok(DocumentDiagnosticReport)])
    /\ UNCHANGED daemon_run

did_close_and_forget(uri) ==
    /\ alive
    /\ versions' = [d \in DOMAIN versions \ {uri} |-> versions[d]]
    /\ effect' = [NoEffect EXCEPT !.handler = "did_close", !.phase = "whole",
                                  !.uri = Some(uri)]
    /\ UNCHANGED <<config, tasks, recorded, alive, daemon_run, lock, threads,
                   call, returned>>

(* did_close: logs, and nothing else. *)
did_close(uri) ==
    /\ alive
    /\ effect' = [NoEffect EXCEPT !.handler = "did_close", !.phase = "whole",
                                  !.uri = Some(uri)]
    /\ UNCHANGED <<config, versions, tasks, recorded, alive, daemon_run, lock, threads,
                   call, returned>>

Next ==
    \/ \E uri \in Docs, version \in Versions : did_open(uri, version)
    \/ \E uri \in Docs, version \in Versions : did_change(uri, version)
    \/ \E uri \in Docs : did_save(uri)
    \/ \E task \in Waiting, child \in CheckChildren : check_file_returns(task, child)

Spec == Init /\ [][Next]_vars

(* The session: the request handlers beside the handlers of two Python     *)
(* documents, each opened with version 1 and changed to version 2.         *)
NextSession ==
    \/ \E status \in StatusChildren, run \in RunChildren : initialize(status, run)
    \/ \E uri \in SessionDocs, child \in InspectChildren : hover(uri, TRUE, child)
    \/ \E uri \in SessionDocs : hover(uri, FALSE, SpawnError)
    \/ \E child \in StopChildren : shutdown(child)
    \/ \E uri \in SessionDocs : did_open(uri, 1)
    \/ \E uri \in SessionDocs : did_change(uri, 2)
    \/ \E uri \in SessionDocs : did_save(uri)
    \/ \E uri \in SessionDocs : did_close(uri)
    \/ \E uri \in SessionDocs : diagnostic(uri)
    \/ \E task \in Waiting, child \in SessionCheckChildren :
            check_file_returns(task, child)

SpecSession == Init /\ [][NextSession]_vars

(***************************************************************************)
(* The handlers statement by statement.  The protocol layer starts a       *)
(* handler; each of the other steps is one statement of one handler.       *)
(***************************************************************************)
InitLock ==
    /\ Init
    /\ config = [command |-> <<"dmypy">>]

Step(t, next) ==
    /\ threads' = [threads EXCEPT ![t] = next]
    /\ UNCHANGED <<config, tasks, effect, alive, recorded, daemon_run, call, returned>>

dispatch(t, handler) ==
    /\ threads[t].pc = "idle"
    /\ Step(t, [handler |-> handler,
                pc |-> IF UsesVersions(handler) THEN "lock" ELSE "spawn",
                command |-> IF UsesVersions(handler) THEN "none" ELSE FirstCommand(handler),
                guard |-> FALSE])
    /\ UNCHANGED <<versions, lock>>

(* self.versions.lock().unwrap(): waits until the Mutex is free. *)
lock_versions(t) ==
    /\ threads[t].pc = "lock"
    /\ ~lock
    /\ lock' = TRUE
    /\ Step(t, [threads[t] EXCEPT !.pc = "locked", !.guard = TRUE])
    /\ UNCHANGED versions

(* .insert(uri, version) of did_open and did_change, .get(&uri) of         *)
(* did_save, and the end of the statement.                                 *)
with_guard(t, uri, version) ==
    LET self == threads[t]
        dropped == guard_scope(self.handler) = "statement"
    IN  /\ self.pc = "locked"
        /\ versions' = IF self.handler = "did_save" THEN versions
                       ELSE insert(versions, uri, version)
        /\ lock' = IF dropped THEN FALSE ELSE lock
        /\ Step(t, [self EXCEPT
                        !.pc = IF self.handler = "did_change" THEN "return" ELSE "spawn",
                        !.command = IF self.handler = "did_change" THEN "none" ELSE "check",
                        !.guard = ~dropped])

(* The handler runs a command of the daemon, or returns before it does     *)
(* (check_file of a document that is not checked; no command configured).  *)
spawn(t, spawned) ==
    LET self == threads[t]
    IN  /\ self.pc = "spawn"
        /\ Step(t, [self EXCEPT !.pc = IF spawned THEN "child" ELSE "return"])
        /\ UNCHANGED <<versions, lock>>

(* The child exits; initialize goes on to "run" when the daemon is not     *)
(* running.                                                                *)
child_exits(t, running) ==
    LET self == threads[t]
    IN  /\ self.pc = "child"
        /\ Step(t, IF self.command = "status" /\ ~running
                   THEN [self EXCEPT !.pc = "spawn", !.command = "run"]
                   ELSE [self EXCEPT !.pc = "return"])
        /\ UNCHANGED <<versions, lock>>

(* The handler returns: what it still holds is dropped. *)
return(t) ==
    LET self == threads[t]
    IN  /\ self.pc = "return"
        /\ lock' = IF self.guard THEN FALSE ELSE lock
        /\ Step(t, [self EXCEPT !.pc = "done", !.guard = FALSE])
        /\ UNCHANGED versions

NextLock ==
    \/ \E t \in Threads, handler \in Handlers : dispatch(t, handler)
    \/ \E t \in Threads : lock_versions(t)
    \/ \E t \in Threads, version \in {1, 2} : with_guard(t, PyDoc, version)
    \/ \E t \in Threads, spawned \in BOOLEAN : spawn(t, spawned)
    \/ \E t \in Threads, running \in BOOLEAN : child_exits(t, running)
    \/ \E t \in Threads : return(t)

SpecLock == InitLock /\ [][NextLock]_vars

(***************************************************************************)
(* Properties of the server, under Spec.                                   *)
(***************************************************************************)
(* The version did_save reads: the table's entry, or 0. *)
latest(uri) == unwrap_or(get(versions, uri), 0)

(* C1: a publish-diagnostics event carries the version that the version    *)
(* table holds for its document when it is published.                      *)
PublishedVersionIsCurrent ==
    effect.published.some =>
        effect.published.val.version = Some(latest(effect.published.val.uri))

(* C2: the table gives, for each document, the version of the last         *)
(* did_open or did_change of that document, and 0 for a document that has  *)
(* had neither; that is the version did_save reads.                        *)
VersionTableLatest ==
    /\ \A d \in Docs :
          latest(d) = IF d \in DOMAIN recorded THEN recorded[d] ELSE 0
    /\ (effect.handler = "did_save" /\ effect.phase = "begin") =>
          effect.version =
              Some(IF effect.uri.val \in DOMAIN recorded
                   THEN recorded[effect.uri.val] ELSE 0)

VersionTableLatestWitness ==
    /\ effect.handler = "did_save"
    /\ effect.phase = "begin"
    /\ effect.uri = Some(PyDoc)
    /\ effect.version = Some(2)
    /\ BagIn([handler |-> "did_open", uri |-> PyDoc, version |-> 1], tasks)
    /\ latest(MakefileDoc) = 0
    /\ MakefileDoc \notin DOMAIN recorded

(* The documents whose extension is not "py", and those under the root. *)
NonPythonDocs == {MakefileDoc, OutsideDoc}
DocsUnderRoot == {PyDoc, MakefileDoc}

(* C10, as claimed: for a document whose extension is not "py", check_file *)
(* returns success, runs no daemon command and publishes nothing.          *)
NonPythonIgnored ==
    (effect.handler \in {"did_open", "did_save"} /\ effect.uri.val \in NonPythonDocs) =>
        /\ effect.returned = Some(Ok("()"))
        /\ effect.invoked = None
        /\ effect.published = None

(* C10, amended: for a document whose extension is not "py", check_file    *)
(* runs no daemon command and publishes nothing; it returns success when   *)
(* the document is under the root and the path error when it is not.  Only *)
(* a document with extension "py" leads to a "check".                      *)
NonPythonNotChecked ==
    /\ (effect.handler \in {"did_open", "did_save"} /\ effect.uri.val \in NonPythonDocs) =>
          /\ effect.invoked = None
          /\ effect.published = None
          /\ effect.returned =
                Some(IF effect.uri.val \in DocsUnderRoot THEN Ok("()")
                     ELSE Err("uri is not a child of root_dir"))
    /\ effect.invoked.some =>
          /\ effect.uri.val \notin NonPythonDocs
          /\ effect.invoked.val.args[1] = "check"
    /\ \A task \in BagToSet(tasks) : task.uri \notin NonPythonDocs

NonPythonNotCheckedWitness ==
    /\ effect.handler = "did_open"
    /\ effect.uri = Some(MakefileDoc)
    /\ effect.returned = Some(Ok("()"))
    /\ effect.invoked = None
    /\ config.command # <<>>
    /\ BagCardinality(tasks) > 0

(***************************************************************************)
(* Properties of a check and of its failures, under Spec.                  *)
(***************************************************************************)
(* The step of a handler that ends a check, and the path it checked. *)
CheckEnded == effect.handler \in {"did_open", "did_save"} /\ effect.phase = "end"
CheckedPath == from_uri(root_dir, UrlParse(effect.uri.val)).val

(* C11, as claimed: whenever the child of a check was spawned, its output  *)
(* is parsed and diagnostics are published, whatever its exit status.      *)
CheckPublishesWhenSpawned ==
    CheckEnded =>
        /\ effect.published.some
        /\ effect.returned = Some(Ok("()"))

(* C11, amended: the exit status of the child has no part in the outcome   *)
(* of a check.  When the child's output is valid UTF-8 it is parsed and    *)
(* the diagnostics are published, once, and the check succeeds; when it is *)
(* not, nothing is published and the check does not succeed.  When the     *)
(* child cannot be spawned the check fails and nothing is published.       *)
CheckIgnoresExitStatus ==
    /\ CheckEnded =>
          LET stdout == effect.child.val.stdout
          IN  /\ effect.published.some = from_utf8(stdout).ok
              /\ effect.returned.val.ok = from_utf8(stdout).ok
              /\ effect.published.some =>
                    effect.published.val.diagnostics =
                        parse_diagnostics(root_dir, CheckedPath, stdout).val
    /\ effect.child = Some(SpawnError) =>
          /\ effect.published = None
          /\ effect.returned = Some(Err("Failed to execute dmypy check"))

CheckIgnoresExitStatusWitness ==
    /\ CheckEnded
    /\ ~effect.child.val.success
    /\ effect.published.some
    /\ Len(effect.published.val.diagnostics) = 1
    /\ effect.returned = Some(Ok("()"))

(* C13: a check that fails (the URI is no file path or is not under the    *)
(* root, the child cannot be spawned, the child's output is not valid      *)
(* UTF-8) publishes nothing, its handler returns without a panic, and the  *)
(* server goes on serving.                                                 *)
RecoverableFailuresSkipped ==
    /\ alive
    /\ (effect.handler \in {"did_open", "did_save"} /\ effect.returned.some) =>
          /\ ~IsPanic(effect.returned.val)
          /\ ~effect.returned.val.ok => effect.published = None
    /\ (CheckEnded /\ ~from_utf8(effect.child.val.stdout).ok) =>
          effect.returned = Some(Err("Utf8Error"))

(* C15: the handler has not read the version that will tag the publication *)
(* when it spawns the daemon's check; it reads the version table when the  *)
(* child has exited, so that the tag is the table's entry at that time.    *)
VersionReadAfterCheck ==
    /\ (effect.phase = "begin" /\ effect.invoked.some) => effect.version = None
    /\ (CheckEnded /\ effect.published.some) =>
          effect.published.val.version = Some(latest(effect.uri.val))

(***************************************************************************)
(* Properties of the session, under SpecSession.                           *)
(***************************************************************************)
NoCommand == "No dmypy command found"

(* C12: when the child of "inspect" exits with a failure the hover is      *)
(* empty; when it exits with success the hover carries the payload that    *)
(* its output parses to; hover does not panic, whatever the output.        *)
HoverContent ==
    (effect.handler = "hover" /\ Len(effect.ran) = 1 /\ effect.ran[1].child.spawned) =>
        LET child == effect.ran[1].child
        IN  /\ ~IsPanic(effect.reply.val)
            /\ ~child.success => effect.reply = Some(Ok(None))
            /\ child.success =>
                  /\ effect.reply.val.ok
                  /\ effect.reply.val.val.some

(* C14, as claimed: with an empty command template every handler that is  *)
(* about to run the daemon returns the internal error "no command" to the  *)
(* protocol layer, and spawns nothing.                                     *)
NoCommandSurfaced ==
    (/\ config.command = <<>>
     /\ effect.handler \in {"initialize", "hover", "shutdown", "did_open", "did_save"}
     /\ effect.reply # Some(Err(JsonRpcError("InvalidParams", "No document found for url")))) =>
        /\ effect.reply = Some(Err(JsonRpcFrom(NoCommand)))
        /\ effect.ran = <<>>
        /\ effect.invoked = None

(* C14, amended: with an empty command template no handler spawns a        *)
(* process; initialize, hover (of a document that is there) and shutdown   *)
(* return the internal error "no command" to the protocol layer; the check *)
(* of did_open and did_save fails with that error, which the handler logs: *)
(* nothing is published and nothing is returned to the protocol layer.     *)
NoCommandFailsFast ==
    config.command = <<>> =>
        /\ effect.ran = <<>>
        /\ effect.invoked = None
        /\ effect.child = None
        /\ effect.published = None
        /\ tasks = EmptyBag
        /\ effect.handler \in {"initialize", "shutdown"} =>
              effect.reply = Some(Err(JsonRpcFrom(NoCommand)))
        /\ effect.handler = "hover" =>
              effect.reply \in
                  {Some(Err(JsonRpcFrom(NoCommand))),
                   Some(Err(JsonRpcError("InvalidParams", "No document found for url")))}
        /\ effect.handler \in {"did_open", "did_save"} =>
              effect.returned = Some(Err(NoCommand))

NoCommandFailsFastWitness ==
    /\ config.command = <<>>
    /\ effect.handler = "did_save"
    /\ effect.uri = Some(PyDoc)
    /\ effect.returned = Some(Err(NoCommand))
    /\ latest(PyDoc) = 2

(* C17: initialize runs the daemon exactly when its probe returned false,  *)
(* with the arguments run, --, the eight flags in their order and the      *)
(* root; when the probe returned true it runs nothing but the probe.       *)
EnsureRunning ==
    effect.handler = "initialize" =>
        /\ Len(effect.ran) <= 2
        /\ \A i \in 1..Len(effect.ran) : effect.ran[i].argv.args[1] # "stop"
        /\ Len(effect.ran) >= 1 => effect.ran[1].argv.args = <<"status">>
        /\ Len(effect.ran) = 2 <=>
              /\ Len(effect.ran) >= 1
              /\ dmypy_is_running(config, effect.ran[1].child) = Ok(FALSE)
        /\ Len(effect.ran) = 2 =>
              effect.ran[2].argv =
                  [program |-> config.command,
                   args |-> <<"run", "--", "--show-absolute-path", "--show-column-numbers",
                              "--show-error-end", "--hide-error-codes",
                              "--hide-error-context", "--no-color-output",
                              "--no-error-summary", "--no-pretty", ".">>]
        /\ config.command # <<>> => Len(effect.ran) >= 1

EnsureRunningWitness ==
    /\ effect.handler = "initialize"
    /\ Len(effect.ran) = 2
    /\ effect.ran[1].child = Output(<<"N", "o", " ", "s", "t", "a", "t", "u", "s", " ", "f", "i", "l", "e", " ", "f", "o", "u", "n", "d", "\n">>, FALSE)
    /\ effect.ran[2].child = Exited(TRUE)
    /\ effect.reply = Some(Ok(InitializeResult))

(* C18: when the daemon's "run" cannot be spawned or exits with a failure, *)
(* initialize returns its result all the same, and the server goes on: it  *)
(* stops serving only when a handler panics.                               *)
RunFailed(run) == ~run.spawned \/ ~run.success
RunFailureNotFatal ==
    /\ (effect.handler = "initialize" /\ Len(effect.ran) = 2) =>
          /\ effect.reply = Some(Ok(InitializeResult))
          /\ alive
    /\ ~alive =>
          \/ effect.returned.some /\ IsPanic(effect.returned.val)
          \/ effect.reply.some /\ IsPanic(effect.reply.val)

RunFailureNotFatalWitness ==
    /\ daemon_run = Some(SpawnError)
    /\ CheckEnded
    /\ effect.handler = "did_save"
    /\ effect.published.some
    /\ alive

(* C19: shutdown runs the daemon's "stop" and returns success, whatever    *)
(* the child does.                                                         *)
StopBestEffort ==
    effect.handler = "shutdown" =>
        /\ config.command # <<>> => Len(effect.ran) = 1
        /\ Len(effect.ran) = 1 =>
              /\ effect.ran[1].argv = [program |-> config.command, args |-> <<"stop">>]
              /\ effect.reply = Some(Ok(Unit))
              /\ alive

StopBestEffortWitness ==
    /\ effect.handler = "shutdown"
    /\ Len(effect.ran) = 1
    /\ effect.ran[1].child = SpawnError
    /\ effect.reply = Some(Ok(Unit))

(* C20: did_change overwrites the document's version and does nothing      *)
(* else; a check is started by did_open and did_save only, and every       *)
(* publication ends one check of the published document, so that it has    *)
(* one did_open or did_save of that document as its cause and each of      *)
(* them causes one publication at most.                                    *)
OnlyOpenAndSaveCheck ==
    [][/\ effect'.handler = "did_change" =>
             /\ versions' = insert(versions, effect'.uri.val, effect'.version.val)
             /\ tasks' = tasks
             /\ effect'.invoked = None
             /\ effect'.ran = <<>>
             /\ effect'.published = None
       /\ effect'.invoked.some => effect'.handler \in {"did_open", "did_save"}
       /\ tasks' # tasks /\ BagCardinality(tasks') >= BagCardinality(tasks) =>
             /\ effect'.handler \in {"did_open", "did_save"}
             /\ effect'.phase = "begin"
             /\ tasks' = tasks (+) SetToBag({[handler |-> effect'.handler,
                                              uri |-> effect'.uri.val,
                                              version |-> effect'.version.val]})
       /\ effect'.published.some =>
             \E task \in BagToSet(tasks) :
                 /\ task.handler \in {"did_open", "did_save"}
                 /\ task.uri = effect'.published.val.uri
                 /\ tasks' = tasks (-) SetToBag({task})]_vars

OnlyOpenAndSaveCheckWitness ==
    /\ effect.published.some
    /\ effect.published.val.uri = OtherPyDoc
    /\ effect.handler = "did_open"
    /\ latest(OtherPyDoc) = 2
    /\ BagToSet(tasks) = {[handler |-> "did_save", uri |-> PyDoc, version |-> 2]}

(***************************************************************************)
(* Properties of the Mutex of the version table, under SpecLock.           *)
(***************************************************************************)
(* C16: a handler that is inside a command of the daemon does not hold the *)
(* Mutex of the version table.  The Mutex is held only by a handler that   *)
(* is at its insert or get, which it can do at once, so that a handler     *)
(* that waits for the Mutex while checks are in progress gets it.          *)
LockFreeDuringDaemonCall ==
    /\ \A t \in Threads : threads[t].pc = "child" => ~threads[t].guard
    /\ lock = (\E t \in Threads : threads[t].guard)
    /\ Cardinality({t \in Threads : threads[t].guard}) <= 1
    /\ \A t \in Threads : threads[t].guard => threads[t].pc = "locked"

LockFreeDuringDaemonCallWitness ==
    /\ threads[1].handler = "did_open" /\ threads[1].pc = "child"
    /\ threads[2].handler = "did_change" /\ threads[2].pc = "locked" /\ threads[2].guard
    /\ threads[3].handler = "initialize" /\ threads[3].pc = "child"
    /\ threads[3].command = "run"
    /\ latest(PyDoc) = 1

(* C21: the version table is empty at startup; the entry of a document     *)
(* changes only in a did_open or did_change of that document, to the       *)
(* version of that notification; did_save, did_close, hover, diagnostic    *)
(* and shutdown (and initialize, and the end of a check) leave the table   *)
(* as it is; an entry, once there, is there in every later state.          *)
VersionTableLifecycle ==
    /\ versions = EmptyMap
    /\ [][/\ DOMAIN versions \subseteq DOMAIN versions'
          /\ \A d \in SessionDocs :
                get(versions', d) # get(versions, d) =>
                    /\ effect'.handler \in {"did_open", "did_change"}
                    /\ effect'.phase = "begin"
                    /\ effect'.uri = Some(d)
                    /\ get(versions', d) = effect'.version
          /\ effect'.handler \in {"did_open", "did_change"} /\ effect'.phase = "begin" =>
                versions' = insert(versions, effect'.uri.val, effect'.version.val)
          /\ \/ effect'.handler \in {"did_save", "did_close", "hover", "diagnostic",
                                     "shutdown", "initialize"}
             \/ effect'.phase = "end"
             => versions' = versions]_vars

VersionTableLifecycleWitness ==
    /\ effect.handler = "did_close"
    /\ effect.uri = Some(PyDoc)
    /\ get(versions, PyDoc) = Some(2)
    /\ get(versions, OtherPyDoc) = Some(1)
    /\ BagIn([handler |-> "did_save", uri |-> PyDoc, version |-> 2], tasks)

(***************************************************************************)
(* Properties of the set builder, under SpecFn.                            *)
(***************************************************************************)
(* C22: no two records of the result of parse_diagnostics agree on range,  *)
(* message and source label (what the Hash of MypyLsDiagnostic covers),    *)
(* also when their lines differ in the severity keyword.                   *)
DedupKeyIsRangeMessageSource ==
    (ParseReturned /\ returned.val.ok) =>
        \A i, j \in DOMAIN returned.val.val :
            hash(returned.val.val[i]) = hash(returned.val.val[j]) => i = j
====
